---- MODULE Spec2Model ----
(***************************************************************************)
(* Double-entry ledger, claim rights and accrual engine of the AAL backend *)
(* (backend/app/services/accounting_service.py, claim_right_service.py,    *)
(* accrual_engine_service.py over the tables of backend/app/db/sql.py).    *)
(***************************************************************************)
EXTENDS Integers, Sequences, FiniteSets, TLC

(***************************************************************************)
(* Money.  The code computes with Python floats.  A float is modelled as   *)
(* an integer count of 1/10000 currency units that carries at most Prec    *)
(* significant decimal digits: every arithmetic operation rounds its exact *)
(* result to the nearest such number, ties to even (IEEE-754 rounding at a *)
(* reduced width and radix 10).  Below 10^Prec units the arithmetic is     *)
(* exact to 0.0001, far inside the code's 0.01 tolerances.                 *)
(***************************************************************************)
Tol == 100

Scale == 100 * Tol

Prec == 6

Abs(x) == IF x < 0 THEN -x ELSE x

Min(a, b) == IF a <= b THEN a ELSE b

RECURSIVE Digits(_)
Digits(x) == IF x < 10 THEN 1 ELSE 1 + Digits(x \div 10)

RECURSIVE Pow10(_)
Pow10(n) == IF n = 0 THEN 1 ELSE 10 * Pow10(n - 1)

\* The spacing of the floats around x >= 0.
Ulp(x) == IF Digits(x) <= Prec THEN 1 ELSE Pow10(Digits(x) - Prec)

\* num/den (num >= 0, den > 0) rounded to the nearest integer, ties to even.
RoundHalfEven(num, den) ==
  LET q == num \div den
      r == num % den
  IN  IF 2 * r > den \/ (2 * r = den /\ q % 2 = 1) THEN q + 1 ELSE q

\* The float nearest to the rational num/den (den > 0).
Float(num, den) ==
  LET a == Abs(num)
      u == Ulp(a \div den)
      m == RoundHalfEven(a, den * u) * u
  IN  IF num < 0 THEN -m ELSE m

\* float + float, float - float
FAdd(a, b) == Float(a + b, 1)

FSub(a, b) == Float(a - b, 1)

\* int * float
FMulInt(n, a) == Float(n * a, 1)

\* float / int
FDivInt(a, n) == Float(a, n)

\* int / int (true division)
FDivInts(a, b) == Float(a * Scale, b)

\* float * float for a, b >= 0; the product is formed in two halves so that it
\* stays inside 32 bits.
FMul(a, b) ==
  LET ah == a \div Scale
      al == a % Scale
      VI == ah * b + (al * b) \div Scale
      f  == (al * b) % Scale
      u  == Ulp(VI)
      q  == VI \div u
      r2 == 2 * ((VI % u) * Scale + f)
  IN  IF r2 > u * Scale \/ (r2 = u * Scale /\ q % 2 = 1)
      THEN (q + 1) * u ELSE q * u

\* Python's sum(): a left fold of float additions starting from 0.
RECURSIVE FSum(_)
FSum(s) == IF s = <<>> THEN 0
           ELSE FAdd(FSum(SubSeq(s, 1, Len(s) - 1)), s[Len(s)])

(***************************************************************************)
(* Dates.  A datetime is modelled at hour granularity as <<year, month,    *)
(* day, hour>>; relativedelta follows python-dateutil.                     *)
(***************************************************************************)
IsLeap(y) == (y % 4 = 0 /\ y % 100 # 0) \/ y % 400 = 0

DaysInMonth(y, m) ==
  IF m = 2 THEN (IF IsLeap(y) THEN 29 ELSE 28)
  ELSE IF m \in {4, 6, 9, 11} THEN 30 ELSE 31

DateLT(a, b) ==
  \/ a[1] < b[1]
  \/ a[1] = b[1] /\ a[2] < b[2]
  \/ a[1] = b[1] /\ a[2] = b[2] /\ a[3] < b[3]
  \/ a[1] = b[1] /\ a[2] = b[2] /\ a[3] = b[3] /\ a[4] < b[4]

DateLE(a, b) == a = b \/ DateLT(a, b)

\* Days since the civil epoch (only differences are used).
EraDays(era, yoe, doy) == era * 146097 + yoe * 365 + yoe \div 4 - yoe \div 100 + doy

\* The day number of day d of the month mp months after March of year y.
DaysFromCivil(y, mp, d) == EraDays(y \div 400, y % 400, (153 * mp + 2) \div 5 + d - 1)

DayNum(dt) ==
  DaysFromCivil(IF dt[2] <= 2 THEN dt[1] - 1 ELSE dt[1],
                IF dt[2] > 2 THEN dt[2] - 3 ELSE dt[2] + 9,
                dt[3])

\* Hours since the civil epoch.
HourNum(dt) == DayNum(dt) * 24 + dt[4]

\* floor(n / d) for d > 0 (a timedelta is normalized to 0 <= seconds < 86400).
FloorDiv(n, d) == IF n >= 0 THEN n \div d ELSE -((-n + d - 1) \div d)

\* (a - b).days
DaysBetween(a, b) == FloorDiv(HourNum(a) - HourNum(b), 24)

\* n / d rounded toward zero, for d > 0.
TruncDiv(n, d) == IF n >= 0 THEN n \div d ELSE -((-n) \div d)

\* The days of relativedelta(a, b) once the months are taken out: the
\* difference in whole days, toward zero.
WholeDays(a, b) == TruncDiv(HourNum(a) - HourNum(b), 24)

\* dt + relativedelta(months=k): the day is clipped to the month's length.
AddMonths(dt, k) ==
  LET t == dt[1] * 12 + (dt[2] - 1) + k
      y == t \div 12
      m == (t % 12) + 1
  IN  <<y, m, Min(dt[3], DaysInMonth(y, m)), dt[4]>>

\* relativedelta(dt1, dt2): the whole months, moved toward zero until
\* dt2 + months does not pass dt1, and the days left over.
RECURSIVE RelMonths(_, _, _)
RelMonths(dt1, dt2, months) ==
  LET dtm == AddMonths(dt2, months)
  IN  IF DateLT(dt1, dt2)
      THEN IF DateLT(dtm, dt1) THEN RelMonths(dt1, dt2, months + 1) ELSE months
      ELSE IF DateLT(dt1, dtm) THEN RelMonths(dt1, dt2, months - 1) ELSE months

\* The delta of dt1 - dt2 whose whole months are given.
DeltaOf(dt1, dt2, months) ==
  [years  |-> TruncDiv(months, 12),
   months |-> months - 12 * TruncDiv(months, 12),
   days   |-> WholeDays(dt1, AddMonths(dt2, months))]

relativedelta(dt1, dt2) ==
  DeltaOf(dt1, dt2, RelMonths(dt1, dt2, (dt1[1] - dt2[1]) * 12 + (dt1[2] - dt2[2])))

(***************************************************************************)
(* Claim rights: period count and amortization schedule.                   *)
(***************************************************************************)
determine_amortization_periods(start_date, end_date, frequency) ==
  LET delta  == relativedelta(end_date, start_date)
      months == delta.years * 12 + delta.months
                  + (IF delta.days > 0 THEN 1 ELSE 0)
  IN  IF frequency = "quarterly" THEN (months + 2) \div 3
      ELSE IF frequency = "yearly"
        THEN delta.years + (IF delta.months > 0 \/ delta.days > 0 THEN 1 ELSE 0)
      ELSE months

\* current_date + relativedelta(months=1 | months=3 | years=1)
NextPeriodEnd(current_date, frequency) ==
  IF frequency = "quarterly" THEN AddMonths(current_date, 3)
  ELSE IF frequency = "yearly" THEN AddMonths(current_date, 12)
  ELSE AddMonths(current_date, 1)

\* The amount of the last period: total - (period_number - 1) * per period.
LastPeriodAmount(total_amount, amount_per_period, period_number) ==
  FSub(total_amount, FMulInt(period_number - 1, amount_per_period))

\* The amount of one period of the walk.
PeriodAmount(claim, total_periods, amount_per_period, current_date, period_number) ==
  LET full_end       == NextPeriodEnd(current_date, claim.frequency)
      clipped        == DateLT(claim.end_date, full_end)
      period_end     == IF clipped THEN claim.end_date ELSE full_end
      days_in_period == DaysBetween(period_end, current_date)
      total_days     == DaysBetween(claim.end_date, claim.start_date)
      amount         == IF clipped /\ total_days > 0
                        THEN FMul(claim.total_amount,
                                  FDivInts(days_in_period, total_days))
                        ELSE amount_per_period
  IN  IF period_number = total_periods
      THEN LastPeriodAmount(claim.total_amount, amount_per_period, period_number)
      ELSE amount

\* A walk that stops one period short of total_periods.
RECURSIVE ScheduleEntriesOneShort(_, _, _, _, _, _)
ScheduleEntriesOneShort(claim_right_id, claim, total_periods, amount_per_period, current_date, period_number) ==
  IF ~(DateLT(current_date, claim.end_date) /\ period_number < total_periods)
  THEN <<>>
  ELSE <<[claim_right_id   |-> claim_right_id,
          period_number    |-> period_number,
          period_start     |-> current_date,
          period_end       |-> NextPeriodEnd(current_date, claim.frequency),
          amount           |-> amount_per_period,
          status           |-> "PENDING",
          posted_at        |-> "None",
          journal_entry_id |-> 0]>>
       \o ScheduleEntriesOneShort(claim_right_id, claim, total_periods, amount_per_period,
                                  NextPeriodEnd(current_date, claim.frequency), period_number + 1)

\* The while loop of generate_amortization_schedule: the entries from
\* current_date on, all PENDING.
RECURSIVE ScheduleEntries(_, _, _, _, _, _)
ScheduleEntries(claim_right_id, claim, total_periods, amount_per_period, current_date, period_number) ==
  IF ~(DateLT(current_date, claim.end_date) /\ period_number <= total_periods)
  THEN <<>>
  ELSE LET full_end   == NextPeriodEnd(current_date, claim.frequency)
           period_end == IF DateLT(claim.end_date, full_end)
                         THEN claim.end_date ELSE full_end
       IN  <<[claim_right_id   |-> claim_right_id,
              period_number    |-> period_number,
              period_start     |-> current_date,
              period_end       |-> period_end,
              amount           |-> PeriodAmount(claim, total_periods,
                                                amount_per_period,
                                                current_date, period_number),
              status           |-> "PENDING",
              posted_at        |-> "None",
              journal_entry_id |-> 0]>>
           \o ScheduleEntries(claim_right_id, claim, total_periods,
                              amount_per_period, period_end, period_number + 1)

(***************************************************************************)
(* Chart of accounts.  An account is identified by its code.               *)
(***************************************************************************)
CATEGORY_TO_EXPENSE_ACCOUNT(category) ==
  CASE category = "Food & Beverage"       -> "5100"
    [] category = "Transportation"        -> "5200"
    [] category = "Accommodation"         -> "5300"
    [] category = "Office Supplies"       -> "5400"
    [] category = "Utilities"             -> "5500"
    [] category = "Healthcare"            -> "5600"
    [] category = "Entertainment"         -> "5700"
    [] category = "Retail/Shopping"       -> "5800"
    [] category = "Professional Services" -> "5900"
    [] category = "Software/Technology"   -> "5910"
    [] category = "Travel"                -> "5920"
    [] category = "Education"             -> "5930"
    [] OTHER                              -> "5990"

PAYMENT_METHOD_TO_ACCOUNT(payment_method) ==
  CASE payment_method \in {"credit card", "credit"} -> "2200"
    [] payment_method = "accounts payable"          -> "2100"
    [] OTHER                                        -> "1100"

PREPAID_EXPENSE_ACCOUNT == "1400"

DEFERRED_REVENUE_ACCOUNT == "2400"

DEFAULT_EXPENSE_ACCOUNT == "5990"

DEFAULT_REVENUE_ACCOUNT == "4100"

\* The codes of DEFAULT_ACCOUNTS.
DEFAULT_ACCOUNTS ==
  {"1000", "1100", "1200", "1300", "2000", "2100", "2200", "3000", "3100",
   "3200", "4000", "4100", "4200", "5000", "5100", "5200", "5300", "5400",
   "5500", "5600", "5700", "5800", "5900", "5910", "5920", "5930", "5990"}

\* Every code an account can have, in the order of ORDER BY code.
ACCOUNT_ORDER ==
  <<"1000", "1100", "1200", "1300", "1400", "2000", "2100", "2200", "2400",
    "3000", "3100", "3200", "4000", "4100", "4200", "5000", "5100", "5200",
    "5300", "5400", "5500", "5600", "5700", "5800", "5900", "5910", "5920",
    "5930", "5990">>

\* account_type of the account with this code (DEFAULT_ACCOUNTS, and the types
\* the accrual engine passes for 1400 and 2400).
AccountType(code) ==
  CASE code \in {"1000", "1100", "1200", "1300", "1400"} -> "asset"
    [] code \in {"2000", "2100", "2200", "2400"}         -> "liability"
    [] code \in {"3000", "3100", "3200"}                 -> "equity"
    [] code \in {"4000", "4100", "4200"}                 -> "revenue"
    [] OTHER                                             -> "expense"

(***************************************************************************)
(* The store: one variable per table (a row's id is its index), fk says    *)
(* whether the database enforces foreign keys (MySQL/InnoDB and PostgreSQL *)
(* do, SQLite by default does not), runs holds the sessions of the accrual *)
(* batches in progress, lastOp records the last call and its outcome.      *)
(***************************************************************************)
VARIABLES accounts, journal_entries, journal_entry_lines, claim_rights, amortization_schedules, amortization_entries, fk, runs, lastOp

vars == <<accounts, journal_entries, journal_entry_lines, claim_rights, amortization_schedules, amortization_entries, fk, runs, lastOp>>

ledgerVars == <<journal_entries, journal_entry_lines>>

claimVars == <<claim_rights, amortization_schedules, amortization_entries>>

\* Bounds of the model: rows of journal_entries, rows of claim_rights, accrual
\* batches in progress.
MaxJournal == 2

MaxClaims == 2

NumRuns == 2

(***************************************************************************)
(* Journal engine.                                                         *)
(***************************************************************************)
\* if existing_count > 0: return; else insert DEFAULT_ACCOUNTS.
InitializedChart(accts) == IF accts # {} THEN accts ELSE DEFAULT_ACCOUNTS

initialize_chart_of_accounts ==
  /\ accounts' = InitializedChart(accounts)
  /\ lastOp' = [op |-> "initialize_chart_of_accounts"]
  /\ UNCHANGED <<ledgerVars, claimVars, fk, runs>>

\* POST /accounts: refused (400) when the code is taken, otherwise one account
\* is added to the chart.
create_account(code) ==
  /\ accounts' = IF code \in accounts THEN accounts ELSE accounts \cup {code}
  /\ lastOp' = [op |-> "create_account", code |-> code,
                result |-> IF code \in accounts THEN "HTTPException" ELSE "ok"]
  /\ UNCHANGED <<ledgerVars, claimVars, fk, runs>>

Debits(lines) == [i \in 1..Len(lines) |-> lines[i].debit]

Credits(lines) == [i \in 1..Len(lines) |-> lines[i].credit]

\* The validation of create_journal_entry: the entry is refused when this is
\* FALSE.
Balanced(lines) == ~(Abs(FSub(FSum(Debits(lines)), FSum(Credits(lines)))) > Tol)

\* The rows a commit of one journal entry with these lines adds.
EntryRow(ledger_entry_id, is_adjusting) == [ledger_entry_id |-> ledger_entry_id, is_adjusting |-> is_adjusting]

LineRows(journal_entry_id, lines) ==
  [i \in 1..Len(lines) |->
     [journal_entry_id |-> journal_entry_id,
      account_id       |-> lines[i].account_id,
      debit            |-> lines[i].debit,
      credit           |-> lines[i].credit]]

\* db.add(journal_entry); db.flush(); db.add(line)...; db.commit(): the entry
\* and its lines reach the tables in one transaction.
CommitJournalEntry(ledger_entry_id, lines) ==
  /\ journal_entries' = Append(journal_entries, EntryRow(ledger_entry_id, FALSE))
  /\ journal_entry_lines' = journal_entry_lines \o LineRows(Len(journal_entries) + 1, lines)

\* db.rollback() in the except branch: nothing of the transaction stays.
RollbackJournalEntry == UNCHANGED ledgerVars

\* |sum of debits - sum of credits| of the lines of a call.
Imbalance(lines) == Abs(FSub(FSum(Debits(lines)), FSum(Credits(lines))))

\* create_journal_entry(ledger_entry_id, entry_date, reference, description,
\* lines, memo).  The lines name accounts of the chart.  The store may fail
\* the transaction at the flush or at the commit (OperationalError).
create_journal_entry(ledger_entry_id, lines) ==
  /\ Len(journal_entries) < MaxJournal
  /\ \A i \in 1..Len(lines) : lines[i].account_id \in accounts
  /\ IF ~Balanced(lines)
     THEN /\ RollbackJournalEntry
          /\ lastOp' = [op |-> "create_journal_entry", imbalance |-> Imbalance(lines), n_lines |-> Len(lines), result |-> "ValueError"]
     ELSE \/ /\ CommitJournalEntry(ledger_entry_id, lines)
             /\ lastOp' = [op |-> "create_journal_entry", imbalance |-> Imbalance(lines), n_lines |-> Len(lines), result |-> "ok"]
          \/ /\ RollbackJournalEntry
             /\ lastOp' = [op |-> "create_journal_entry", imbalance |-> Imbalance(lines), n_lines |-> Len(lines), result |-> "OperationalError"]
  /\ UNCHANGED <<accounts, claimVars, fk, runs>>

\* amount = ledger_entry.total or ledger_entry.amount or 0
LedgerAmount(ledger_entry) ==
  IF ledger_entry.total # 0 THEN ledger_entry.total ELSE ledger_entry.amount

\* The two lines auto_generate_journal_entry builds.
AutoLines(expense_code, payment_code, amount) ==
  <<[account_id |-> expense_code, debit |-> amount, credit |-> 0],
    [account_id |-> payment_code, debit |-> 0, credit |-> amount]>>

\* A call that posts any amount.
AnyAmountPostable(amount) == TRUE

\* "if amount <= 0: return None"
AmountPostable(amount) == ~(amount <= 0)

\* Whether the second lookup of the accounts can miss rows committed by
\* initialize_chart_of_accounts in its own session: the lookups share one
\* transaction, which under REPEATABLE READ (the default of MySQL/InnoDB, a
\* store that enforces foreign keys) reads the snapshot of the first lookup.
SnapshotChoices == IF fk THEN {FALSE, TRUE} ELSE {FALSE}

\* The chart the lookups after the initialization see.
ChartSeen(before, after, stale) == IF stale THEN before ELSE after

\* auto_generate_journal_entry(ledger_entry, category): returns None (nothing
\* written) when an account is still missing after one initialization, when
\* the amount is not positive, or when the store fails the transaction.  The
\* category of the call is carried in ledger_entry.category, the payment
\* method is already lowered and stripped.
auto_generate_journal_entry(ledger_entry) ==
  LET expense_code == CATEGORY_TO_EXPENSE_ACCOUNT(ledger_entry.category)
      payment_code == PAYMENT_METHOD_TO_ACCOUNT(ledger_entry.payment_method)
      missing      == expense_code \notin accounts \/ payment_code \notin accounts
      chart        == IF missing THEN InitializedChart(accounts) ELSE accounts
      amount       == LedgerAmount(ledger_entry)
      outcome(r)   == [op |-> "auto_generate_journal_entry", ledger_entry_id |-> ledger_entry.id,
                       expense_code |-> expense_code, payment_code |-> payment_code,
                       initialized |-> missing, amount |-> amount, result |-> r]
  IN  /\ Len(journal_entries) < MaxJournal
      /\ accounts' = chart
      /\ \E stale \in SnapshotChoices :
           LET seen == ChartSeen(accounts, chart, stale)
           IN  IF expense_code \notin seen \/ payment_code \notin seen
               THEN /\ UNCHANGED ledgerVars
                    /\ lastOp' = outcome("None: accounts missing")
               ELSE IF ~AmountPostable(amount)
               THEN /\ UNCHANGED ledgerVars
                    /\ lastOp' = outcome("None: amount")
               ELSE \/ /\ CommitJournalEntry(ledger_entry.id, AutoLines(expense_code, payment_code, amount))
                       /\ lastOp' = outcome("ok")
                    \/ /\ RollbackJournalEntry
                       /\ lastOp' = outcome("None: exception")
      /\ UNCHANGED <<claimVars, fk, runs>>

(***************************************************************************)
(* Balance and report engine (read-only queries over the tables).          *)
(***************************************************************************)
\* The debit (credit) amounts of the lines of an account, in row order.
RECURSIVE AccountColumn(_, _, _)
AccountColumn(account_id, column, n) ==
  IF n = 0 THEN <<>>
  ELSE LET rest == AccountColumn(account_id, column, n - 1)
           line == journal_entry_lines[n]
       IN  IF line.account_id = account_id
           THEN Append(rest, IF column = "debit" THEN line.debit ELSE line.credit)
           ELSE rest

calculate_account_balance(account_id) ==
  LET total_debits  == FSum(AccountColumn(account_id, "debit", Len(journal_entry_lines)))
      total_credits == FSum(AccountColumn(account_id, "credit", Len(journal_entry_lines)))
  IN  IF account_id \notin accounts THEN 0
      ELSE IF AccountType(account_id) \in {"asset", "expense"}
      THEN FSub(total_debits, total_credits)
      ELSE FSub(total_credits, total_debits)

\* The accounts a report lists: active, with |balance| >= 0.01, by code.
RECURSIVE ReportedAccounts(_)
ReportedAccounts(n) ==
  IF n = 0 THEN <<>>
  ELSE LET rest == ReportedAccounts(n - 1)
           code == ACCOUNT_ORDER[n]
       IN  IF code \in accounts /\ ~(Abs(calculate_account_balance(code)) < Tol)
           THEN Append(rest, code) ELSE rest

\* The debit and the credit column of one account of the trial balance.
DebitBalance(code) ==
  LET balance == calculate_account_balance(code)
  IN  IF AccountType(code) \in {"asset", "expense"}
      THEN (IF balance >= 0 THEN balance ELSE 0)
      ELSE (IF balance >= 0 THEN 0 ELSE Abs(balance))

CreditBalance(code) ==
  LET balance == calculate_account_balance(code)
  IN  IF AccountType(code) \in {"asset", "expense"}
      THEN (IF balance >= 0 THEN 0 ELSE Abs(balance))
      ELSE (IF balance >= 0 THEN balance ELSE 0)

get_trial_balance ==
  LET listed        == ReportedAccounts(Len(ACCOUNT_ORDER))
      total_debits  == FSum([i \in 1..Len(listed) |-> DebitBalance(listed[i])])
      total_credits == FSum([i \in 1..Len(listed) |-> CreditBalance(listed[i])])
  IN  [accounts      |-> listed,
       total_debits  |-> total_debits,
       total_credits |-> total_credits,
       is_balanced   |-> Abs(FSub(total_debits, total_credits)) < Tol]

\* The sum of the balances of the listed accounts of one type.
TypeTotal(account_type) ==
  LET listed == ReportedAccounts(Len(ACCOUNT_ORDER))
  IN  FSum([i \in 1..Len(listed) |->
              IF AccountType(listed[i]) = account_type
              THEN calculate_account_balance(listed[i]) ELSE 0])

get_income_statement ==
  LET total_revenue  == TypeTotal("revenue")
      total_expenses == TypeTotal("expense")
  IN  [total_revenue  |-> total_revenue,
       total_expenses |-> total_expenses,
       net_income     |-> FSub(total_revenue, total_expenses)]

get_balance_sheet ==
  LET total_assets      == TypeTotal("asset")
      total_liabilities == TypeTotal("liability")
      net_income        == get_income_statement.net_income
      total_equity      == IF Abs(net_income) >= Tol
                           THEN FAdd(TypeTotal("equity"), net_income)
                           ELSE TypeTotal("equity")
  IN  [total_assets      |-> total_assets,
       total_liabilities |-> total_liabilities,
       total_equity      |-> total_equity,
       is_balanced       |-> Abs(FSub(total_assets, FAdd(total_liabilities, total_equity))) < Tol]

(***************************************************************************)
(* Claim right engine.                                                     *)
(***************************************************************************)
\* A claim whose schedule is never found.
NeverHasSchedule(claim_right_id) == FALSE

\* claim.schedule: the schedule row of the claim, if any.
HasSchedule(claim_right_id) ==
  \E i \in 1..Len(amortization_schedules) : amortization_schedules[i].claim_right_id = claim_right_id

\* The body of generate_amortization_schedule for an existing claim: the
\* schedule and entry tables after it, and how it returned.
GenerateSchedule(claim_right_id, claim) ==
  LET total_periods     == determine_amortization_periods(claim.start_date, claim.end_date, claim.frequency)
      amount_per_period == FDivInt(claim.total_amount, total_periods)
  IN  IF HasSchedule(claim_right_id)
      THEN [schedules |-> amortization_schedules, entries |-> amortization_entries, result |-> "exists"]
      ELSE IF total_periods <= 0
      THEN [schedules |-> amortization_schedules, entries |-> amortization_entries, result |-> "ValueError"]
      ELSE [schedules |-> Append(amortization_schedules,
                                 [claim_right_id    |-> claim_right_id,
                                  total_periods     |-> total_periods,
                                  amount_per_period |-> amount_per_period,
                                  is_generated      |-> TRUE]),
            entries   |-> amortization_entries
                            \o ScheduleEntries(claim_right_id, claim, total_periods, amount_per_period, claim.start_date, 1),
            result    |-> "ok"]

\* The row create_claim_right inserts.
NewClaim(input) ==
  [claim_type       |-> input.claim_type,
   total_amount     |-> input.total_amount,
   remaining_amount |-> input.total_amount,
   amortized_amount |-> 0,
   start_date       |-> input.start_date,
   end_date         |-> input.end_date,
   frequency        |-> input.frequency,
   status           |-> "active",
   cancellation_date   |-> "None",
   cancellation_reason |-> "None",
   ledger_entry_id  |-> input.ledger_entry_id]

\* create_claim_right(...): the claim is committed first, then its schedule
\* is generated in a transaction of its own.
create_claim_right(input) ==
  /\ Len(claim_rights) < MaxClaims
  /\ IF ~(input.total_amount > 0)
     THEN /\ UNCHANGED claimVars
          /\ lastOp' = [op |-> "create_claim_right", result |-> "ValueError"]
     ELSE LET id  == Len(claim_rights) + 1
              gen == GenerateSchedule(id, NewClaim(input))
          IN  /\ claim_rights' = Append(claim_rights, NewClaim(input))
              /\ amortization_schedules' = gen.schedules
              /\ amortization_entries' = gen.entries
              /\ lastOp' = [op |-> "create_claim_right", claim_right_id |-> id, result |-> gen.result]
  /\ UNCHANGED <<accounts, ledgerVars, fk, runs>>

\* generate_amortization_schedule(claim_right_id) called on its own.
generate_amortization_schedule(claim_right_id) ==
  /\ IF claim_right_id \notin 1..Len(claim_rights)
     THEN /\ UNCHANGED claimVars
          /\ lastOp' = [op |-> "generate_amortization_schedule", claim_right_id |-> claim_right_id, result |-> "ValueError"]
     ELSE LET gen == GenerateSchedule(claim_right_id, claim_rights[claim_right_id])
          IN  /\ amortization_schedules' = gen.schedules
              /\ amortization_entries' = gen.entries
              /\ lastOp' = [op |-> "generate_amortization_schedule", claim_right_id |-> claim_right_id, result |-> gen.result]
              /\ UNCHANGED claim_rights
  /\ UNCHANGED <<accounts, ledgerVars, fk, runs>>

\* A cancellation that marks every entry of the claim as skipped.
SkipEveryEntry(claim_right_id) ==
  [i \in 1..Len(amortization_entries) |->
     IF amortization_entries[i].claim_right_id = claim_right_id
     THEN [amortization_entries[i] EXCEPT !.status = "SKIPPED"]
     ELSE amortization_entries[i]]

\* The entry table after cancel_claim_right marked the claim's pending
\* entries as skipped.
SkipPending(claim_right_id) ==
  [i \in 1..Len(amortization_entries) |->
     IF /\ amortization_entries[i].claim_right_id = claim_right_id
        /\ amortization_entries[i].status = "PENDING"
     THEN [amortization_entries[i] EXCEPT !.status = "SKIPPED"]
     ELSE amortization_entries[i]]

\* A cancellation that never finds the claim cancelled.
CancelNeverNoOp(claim) == FALSE

\* Whether cancel_claim_right returns the claim as it is.
CancelIsNoOp(claim) == claim.status = "cancelled"

cancel_claim_right(claim_right_id, reason) ==
  /\ IF claim_right_id \notin 1..Len(claim_rights)
     THEN /\ UNCHANGED claimVars
          /\ lastOp' = [op |-> "cancel_claim_right", claim_right_id |-> claim_right_id, reason |-> reason, result |-> "ValueError"]
     ELSE IF CancelIsNoOp(claim_rights[claim_right_id])
     THEN /\ UNCHANGED claimVars
          /\ lastOp' = [op |-> "cancel_claim_right", claim_right_id |-> claim_right_id, reason |-> reason, result |-> "unchanged"]
     ELSE /\ claim_rights' = [claim_rights EXCEPT ![claim_right_id].status = "cancelled",
                                                  ![claim_right_id].cancellation_date = "utcnow",
                                                  ![claim_right_id].cancellation_reason = reason]
          /\ amortization_entries' = SkipPending(claim_right_id)
          /\ lastOp' = [op |-> "cancel_claim_right", claim_right_id |-> claim_right_id, reason |-> reason, result |-> "cancelled"]
          /\ UNCHANGED amortization_schedules
  /\ UNCHANGED <<accounts, ledgerVars, fk, runs>>

(***************************************************************************)
(* Accrual engine.  A batch (process_accruals_for_period) works in a       *)
(* session of its own: the rows it selected and the claims it loaded are   *)
(* objects of that session, changed in memory and written at db.commit().  *)
(***************************************************************************)
EmptyResults ==
  [period_start |-> <<>>, period_end |-> <<>>,
   entries_processed |-> 0, total_amount |-> 0, asset_claims |-> 0,
   liability_claims |-> 0, errors |-> <<>>, posted_entries |-> <<>>]

\* A session that has not started: pc is idle, selected, done or raised.
IdleRun ==
  [pc |-> "idle", dry_run |-> FALSE, queue |-> <<>>, entries |-> <<>>,
   claims |-> <<>>, status_set |-> {}, created |-> {}, results |-> EmptyResults]

\* entry.period_start <= period_end and entry.period_end >= period_start
Overlaps(entry, period_start, period_end) ==
  DateLE(entry.period_start, period_end) /\ DateLE(period_start, entry.period_end)

\* A query that looks at the period only.
IsSelectedByPeriodOnly(entry, period_start, period_end) == Overlaps(entry, period_start, period_end)

\* The filter of the pending-entries query.
IsSelected(entry, period_start, period_end) ==
  /\ claim_rights[entry.claim_right_id].status = "active"
  /\ entry.status = "PENDING"
  /\ Overlaps(entry, period_start, period_end)

\* The ids the query returns among the first n rows, in row order.
RECURSIVE PendingEntries(_, _, _)
PendingEntries(period_start, period_end, n) ==
  IF n = 0 THEN <<>>
  ELSE LET rest == PendingEntries(period_start, period_end, n - 1)
       IN  IF IsSelected(amortization_entries[n], period_start, period_end)
           THEN Append(rest, n) ELSE rest

SeqToSet(q) == {q[i] : i \in 1..Len(q)}

\* The session after the query.
SelectRun(period_start, period_end, dry_run) ==
  LET queue == PendingEntries(period_start, period_end, Len(amortization_entries))
  IN  [IdleRun EXCEPT !.pc = "selected", !.dry_run = dry_run, !.queue = queue,
                      !.entries = [i \in SeqToSet(queue) |-> amortization_entries[i]],
                      !.results = [EmptyResults EXCEPT !.period_start = period_start,
                                                       !.period_end = period_end]]

\* get_or_create_account(user_id, code, name, account_type): the chart with
\* the account of that code in it.
get_or_create_account(chart, code) == chart \cup {code}

\* Whether _process_*_claim_accrual raises before it builds the journal
\* entry: with a ledger_entry_id set it evaluates LedgerEntry, a name the
\* module never imports (NameError).
PostingRaises(claim) == claim.ledger_entry_id # 0

\* A posting that leaves remaining_amount as it was.
ClaimAfterPostingKeepingRemaining(claim, amount) ==
  [claim EXCEPT !.amortized_amount = FAdd(claim.amortized_amount, amount)]

\* A batch that writes whatever dry_run says.
AlwaysPersisting(run) == TRUE

\* "if not dry_run": whether the batch changes the rows and commits.
Persisting(run) == ~run.dry_run

\* The claim after one posted amount.
ClaimAfterPosting(claim, amount) ==
  LET remaining == FSub(claim.remaining_amount, amount)
  IN  [claim EXCEPT !.amortized_amount = FAdd(claim.amortized_amount, amount),
                    !.remaining_amount = remaining,
                    !.status = IF Abs(remaining) < Tol THEN "completed" ELSE @]

\* A posting that does not link the journal entry.
EntryAfterPostingUnlinked(entry, journal_entry_id) ==
  [entry EXCEPT !.status = "POSTED", !.posted_at = "utcnow"]

\* The entry after its posting; journal_entry_id is the id the flushed
\* journal entry got.
EntryAfterPosting(entry, journal_entry_id) ==
  [entry EXCEPT !.status = "POSTED", !.posted_at = "utcnow", !.journal_entry_id = journal_entry_id]

\* One turn of the loop of process_accruals_for_period on the head of the
\* queue.  The journal entry and its two lines are added and flushed in the
\* session _process_*_claim_accrual opens, which is closed without a commit:
\* they are rolled back, and only the id the flush gave remains, on the entry.
ProcessSingle(run) ==
  LET e       == Head(run.queue)
      entry   == run.entries[e]
      cid     == entry.claim_right_id
      claim   == IF cid \in DOMAIN run.claims THEN run.claims[cid] ELSE claim_rights[cid]
      asset   == claim.claim_type = "ASSET_CLAIM"
      first   == IF asset THEN PREPAID_EXPENSE_ACCOUNT ELSE DEFERRED_REVENUE_ACCOUNT
      second  == IF asset THEN DEFAULT_EXPENSE_ACCOUNT ELSE DEFAULT_REVENUE_ACCOUNT
      jeid    == Len(journal_entries) + 1
      posted  == ClaimAfterPosting(claim, entry.amount)
      res     == run.results
  IN  IF PostingRaises(claim)
      THEN [run EXCEPT !.queue   = Tail(@),
                       !.claims  = (cid :> claim) @@ @,
                       !.created = get_or_create_account(@, first),
                       !.results = [res EXCEPT !.errors = Append(@, e)]]
      ELSE [run EXCEPT
              !.queue      = Tail(@),
              !.entries    = IF Persisting(run) THEN (e :> EntryAfterPosting(entry, jeid)) @@ @ ELSE @,
              !.claims     = (cid :> (IF Persisting(run) THEN posted ELSE claim)) @@ @,
              !.status_set = IF Persisting(run) /\ posted.status # claim.status THEN @ \cup {cid} ELSE @,
              !.created    = get_or_create_account(get_or_create_account(@, first), second),
              !.results    = [res EXCEPT
                                !.entries_processed = @ + 1,
                                !.total_amount      = FAdd(@, entry.amount),
                                !.asset_claims      = IF asset THEN @ + 1 ELSE @,
                                !.liability_claims  = IF asset THEN @ ELSE @ + 1,
                                !.posted_entries    = IF run.dry_run THEN @ ELSE Append(@, e)]]

\* The rows the session changed: the selected entries it set to POSTED.
DirtyEntries(run) == {e \in DOMAIN run.entries : run.entries[e].status = "POSTED"}

DirtyClaims(run) == {run.entries[e].claim_right_id : e \in DirtyEntries(run)}

\* db.commit() of the batch fails when the store enforces foreign keys: the
\* journal entry a posted entry points to was rolled back.
CommitRaises(run) == fk /\ DirtyEntries(run) # {}

\* The tables after the UPDATEs of db.commit(): each changed attribute of each
\* changed row is written, whatever the row holds by then.
EntriesAfterCommit(run) ==
  [i \in 1..Len(amortization_entries) |->
     IF i \in DirtyEntries(run)
     THEN [amortization_entries[i] EXCEPT !.status = run.entries[i].status,
                                          !.posted_at = run.entries[i].posted_at,
                                          !.journal_entry_id = run.entries[i].journal_entry_id]
     ELSE amortization_entries[i]]

ClaimsAfterCommit(run) ==
  [c \in 1..Len(claim_rights) |->
     IF c \in DirtyClaims(run)
     THEN [claim_rights[c] EXCEPT !.amortized_amount = run.claims[c].amortized_amount,
                                  !.remaining_amount = run.claims[c].remaining_amount,
                                  !.status = IF c \in run.status_set THEN run.claims[c].status ELSE @]
     ELSE claim_rights[c]]

\* The loop run to its end.
RECURSIVE ProcessAll(_)
ProcessAll(run) ==
  CHOOSE done \in {IF r.queue = <<>> THEN r ELSE ProcessAll(ProcessSingle(r)) : r \in {run}} : TRUE

\* The end of the batch: the commit (not in a dry run), or the exception it
\* raises, which leaves the tables as they were.
FinishBatch(run) ==
  IF ~Persisting(run) \/ CommitRaises(run)
  THEN /\ UNCHANGED claimVars
  ELSE /\ amortization_entries' = EntriesAfterCommit(run)
       /\ claim_rights' = ClaimsAfterCommit(run)
       /\ UNCHANGED amortization_schedules

BatchOutcome(run) ==
  [op |-> "process_accruals_for_period", dry_run |-> run.dry_run,
   results |-> run.results,
   result |-> IF Persisting(run) /\ CommitRaises(run) THEN "IntegrityError" ELSE "ok"]

\* process_accruals_for_period(user_id, period_start, period_end, dry_run) run
\* from its query to its commit with no other call in between.
process_accruals_for_period(period_start, period_end, dry_run) ==
  \E run \in {ProcessAll(SelectRun(period_start, period_end, dry_run))} :
    /\ FinishBatch(run)
    /\ accounts' = accounts \cup run.created
    /\ lastOp' = BatchOutcome(run)
    /\ UNCHANGED <<ledgerVars, fk, runs>>

(***************************************************************************)
(* The same batch as the steps concurrent requests interleave: the query,  *)
(* one turn of the loop, the commit.  runs[r] is the session of request r. *)
(***************************************************************************)
BatchSelect(r, period_start, period_end, dry_run) ==
  /\ runs[r].pc = "idle"
  /\ runs' = [runs EXCEPT ![r] = SelectRun(period_start, period_end, dry_run)]
  /\ lastOp' = [op |-> "BatchSelect", run |-> r]
  /\ UNCHANGED <<accounts, ledgerVars, claimVars, fk>>

BatchStep(r) ==
  /\ runs[r].pc = "selected"
  /\ runs[r].queue # <<>>
  /\ runs' = [runs EXCEPT ![r] = ProcessSingle(runs[r])]
  /\ accounts' = accounts \cup runs'[r].created
  /\ lastOp' = [op |-> "BatchStep", run |-> r]
  /\ UNCHANGED <<ledgerVars, claimVars, fk>>

BatchCommit(r) ==
  /\ runs[r].pc = "selected"
  /\ runs[r].queue = <<>>
  /\ FinishBatch(runs[r])
  /\ runs' = [runs EXCEPT ![r].pc = IF Persisting(runs[r]) /\ CommitRaises(runs[r]) THEN "raised" ELSE "done"]
  /\ lastOp' = [op |-> "BatchCommit", run |-> r]
  /\ UNCHANGED <<accounts, ledgerVars, fk>>

(***************************************************************************)
(* Inputs of the calls.                                                    *)
(***************************************************************************)
Line(account_id, debit, credit) == [account_id |-> account_id, debit |-> debit, credit |-> credit]

\* lines of create_journal_entry: balanced, balanced with two credits under
\* 0.01, off by exactly 0.01 (one line and two lines), off by 1.00, off by
\* 0.0101, one line that is both a debit and a credit of 5.00, and no line
\* at all.
LineInputs ==
  { <<Line("5990", 50 * Scale, 0), Line("1100", 0, 50 * Scale)>>,
    <<Line("5990", 180, 0), Line("1100", 0, 90), Line("1000", 0, 90)>>,
    <<Line("5990", Tol, 0)>>,
    <<Line("1100", Scale + Tol, 0), Line("5990", 0, Scale)>>,
    <<Line("5990", 2 * Scale, 0), Line("1100", 0, Scale)>>,
    <<Line("5990", Tol + 1, 0)>>,
    <<Line("5990", 5 * Scale, 5 * Scale)>>,
    <<>> }

\* ledger entries handed to auto_generate_journal_entry.
LedgerInputs ==
  { [id |-> 1, total |-> 25 * Scale, amount |-> 20 * Scale, category |-> "Travel", payment_method |-> "cash"],
    [id |-> 2, total |-> 0, amount |-> 0, category |-> "Utilities", payment_method |-> "credit card"],
    [id |-> 3, total |-> 0, amount |-> 3 * Scale, category |-> "Unknown", payment_method |-> "wire"],
    [id |-> 4, total |-> -(5 * Scale), amount |-> 5 * Scale, category |-> "Travel", payment_method |-> "cash"] }

ClaimInput(claim_type, total_amount, start_date, end_date, frequency, ledger_entry_id) ==
  [claim_type |-> claim_type, total_amount |-> total_amount, start_date |-> start_date,
   end_date |-> end_date, frequency |-> frequency, ledger_entry_id |-> ledger_entry_id]

\* claims handed to create_claim_right: two periods of 6.00; three periods of
\* 0.0067, 0.0067, 0.0066; one linked to a ledger entry; one whose range is
\* empty; one of amount 0.
ClaimInputs ==
  { ClaimInput("ASSET_CLAIM", 12 * Scale, <<2024, 1, 1, 0>>, <<2024, 3, 1, 0>>, "monthly", 0),
    ClaimInput("LIABILITY_CLAIM", 2 * Tol, <<2024, 1, 1, 0>>, <<2024, 4, 1, 0>>, "monthly", 0),
    ClaimInput("ASSET_CLAIM", 5 * Scale, <<2024, 1, 1, 0>>, <<2024, 2, 1, 0>>, "monthly", 1),
    ClaimInput("LIABILITY_CLAIM", 7 * Scale, <<2024, 2, 1, 0>>, <<2024, 2, 1, 0>>, "yearly", 0),
    ClaimInput("ASSET_CLAIM", 0, <<2024, 1, 1, 0>>, <<2024, 3, 1, 0>>, "monthly", 0) }

\* accounting periods handed to process_accruals_for_period.
Windows ==
  { << <<2024, 1, 1, 0>>, <<2024, 1, 31, 23>> >>,
    << <<2024, 2, 2, 0>>, <<2024, 2, 29, 23>> >>,
    << <<2024, 1, 1, 0>>, <<2024, 12, 31, 23>> >> }

\* the claims and periods of the concurrent requests.
ConcClaimInputs ==
  { ClaimInput("ASSET_CLAIM", 12 * Scale, <<2024, 1, 1, 0>>, <<2024, 3, 1, 0>>, "monthly", 0),
    ClaimInput("LIABILITY_CLAIM", 2 * Tol, <<2024, 1, 1, 0>>, <<2024, 4, 1, 0>>, "monthly", 0) }

ConcWindows ==
  { << <<2024, 1, 1, 0>>, <<2024, 1, 31, 23>> >>,
    << <<2024, 1, 1, 0>>, <<2024, 12, 31, 23>> >> }

ClaimIds == 1..(MaxClaims + 1)

\* reasons handed to cancel_claim_right.
Reasons == {"sold", "expired"}

Runs == 1..NumRuns

(***************************************************************************)
(* Specifications.                                                         *)
(***************************************************************************)
Init ==
  /\ accounts = {}
  /\ journal_entries = <<>>
  /\ journal_entry_lines = <<>>
  /\ claim_rights = <<>>
  /\ amortization_schedules = <<>>
  /\ amortization_entries = <<>>
  /\ fk \in BOOLEAN
  /\ runs = [r \in Runs |-> IdleRun]
  /\ lastOp = [op |-> "init"]

\* The calls on claims and accruals; every call runs from its start to its
\* end before the next one starts.
Next ==
  \/ initialize_chart_of_accounts
  \/ \E input \in ClaimInputs : create_claim_right(input)
  \/ \E claim_right_id \in ClaimIds : generate_amortization_schedule(claim_right_id)
  \/ \E claim_right_id \in ClaimIds : \E reason \in Reasons : cancel_claim_right(claim_right_id, reason)
  \/ \E w \in Windows : \E dry_run \in BOOLEAN : process_accruals_for_period(w[1], w[2], dry_run)

Spec == Init /\ [][Next]_vars

\* account codes handed to POST /accounts: Cash and General Expense.
AccountInputs == {"1100", "5990"}

\* The calls on the journal.
NextLedger ==
  \/ initialize_chart_of_accounts
  \/ \E code \in AccountInputs : create_account(code)
  \/ \E lines \in LineInputs : \E ledger_entry_id \in {0, 1} : create_journal_entry(ledger_entry_id, lines)
  \/ \E ledger_entry \in LedgerInputs : auto_generate_journal_entry(ledger_entry)

SpecLedger == Init /\ [][NextLedger]_vars

\* Requests served concurrently: the batches advance step by step, between
\* the calls that create and cancel claims.
NextConc ==
  \/ \E input \in ConcClaimInputs : create_claim_right(input)
  \/ \E claim_right_id \in ClaimIds : cancel_claim_right(claim_right_id, "sold")
  \/ \E r \in Runs : \E w \in ConcWindows : \E dry_run \in BOOLEAN : BatchSelect(r, w[1], w[2], dry_run)
  \/ \E r \in Runs : BatchStep(r)
  \/ \E r \in Runs : BatchCommit(r)

SpecConc == Init /\ [][NextConc]_vars

\* Schedule generation over a range of totals, date ranges and frequencies.
SchedTotals == {1200 * Scale, 100 * Scale, 10 * Scale}

SchedStarts == {<<2024, 1, 1, 0>>, <<2024, 1, 31, 0>>}

SchedEnds == {<<2024, 1, 1, 12>>, <<2024, 3, 30, 0>>, <<2024, 4, 15, 0>>, <<2025, 1, 1, 0>>, <<2025, 2, 1, 0>>}

Frequencies == {"monthly", "quarterly", "yearly"}

SchedInputs ==
  {ClaimInput("ASSET_CLAIM", t, s, e, f, 0) : t \in SchedTotals, s \in SchedStarts, e \in SchedEnds, f \in Frequencies}

NextSched ==
  \/ \E input \in SchedInputs : create_claim_right(input)
  \/ \E claim_right_id \in ClaimIds : generate_amortization_schedule(claim_right_id)

SpecSched == Init /\ [][NextSched]_vars

\* Claims posted by repeated calls: every period is processed again and again
\* (weak fairness of the non-dry-run call of each period), between creations
\* and cancellations.
NextLive ==
  \/ \E input \in ClaimInputs : create_claim_right(input)
  \/ \E claim_right_id \in ClaimIds : cancel_claim_right(claim_right_id, "sold")
  \/ \E w \in Windows : process_accruals_for_period(w[1], w[2], FALSE)

SpecLive ==
  /\ Init
  /\ [][NextLive]_vars
  /\ \A w \in Windows : WF_vars(process_accruals_for_period(w[1], w[2], FALSE))

\* Journal entries written for business transactions and by accrual postings
\* only: no call of create_journal_entry.
NextAuto ==
  \/ initialize_chart_of_accounts
  \/ \E ledger_entry \in LedgerInputs : auto_generate_journal_entry(ledger_entry)
  \/ \E input \in ClaimInputs : create_claim_right(input)
  \/ process_accruals_for_period(<<2024, 1, 1, 0>>, <<2024, 12, 31, 23>>, FALSE)

SpecAuto == Init /\ [][NextAuto]_vars

(***************************************************************************)
(* Properties.                                                             *)
(***************************************************************************)
\* The lines of journal entry e, in row order.
LinesOf(e) == SelectSeq(journal_entry_lines, LAMBDA line : line.journal_entry_id = e)

\* The amounts of the entries of claim c, in row order.
EntriesOf(c) == SelectSeq(amortization_entries, LAMBDA entry : entry.claim_right_id = c)

AmountsOf(c) == [i \in 1..Len(EntriesOf(c)) |-> EntriesOf(c)[i].amount]

\* C1: every persisted journal entry has |sum of its debits - sum of its
\* credits| < 0.01, whatever sequence of create_journal_entry and
\* auto_generate_journal_entry calls produced the journal.
C1_PersistedEntriesBalanced ==
  \A e \in 1..Len(journal_entries) : Imbalance(LinesOf(e)) < Tol

\* C2: the trial balance reports is_balanced in every state of the journal.
C2_TrialBalanceBalanced == get_trial_balance.is_balanced

\* C3: the balance sheet reports is_balanced in every state of the journal.
C3_BalanceSheetBalanced == get_balance_sheet.is_balanced

\* C4: for every claim right, |remaining_amount + amortized_amount -
\* total_amount| < 0.01 after its creation and after every posting,
\* cancellation and dry run, in any order.
C4_AmountsConserved ==
  \A c \in 1..Len(claim_rights) :
    Abs(FSub(FAdd(claim_rights[c].remaining_amount, claim_rights[c].amortized_amount),
             claim_rights[c].total_amount)) < Tol

\* a claim one of whose two periods is posted, looked at after a cancellation
\* or a dry run
C4_Witness ==
  /\ lastOp.op \in {"cancel_claim_right", "process_accruals_for_period"}
  /\ \E c \in 1..Len(claim_rights) :
       /\ claim_rights[c].amortized_amount > 0
       /\ claim_rights[c].remaining_amount > 0
       /\ lastOp.op = "process_accruals_for_period" => lastOp.dry_run

\* C5: the amounts of the entries of every generated schedule sum to the
\* claim's total_amount exactly.
C5_ScheduleSumsToTotal ==
  \A c \in 1..Len(claim_rights) :
    HasSchedule(c) => FSum(AmountsOf(c)) = claim_rights[c].total_amount

\* C6: two concurrent batches never post the same amortization entry: no
\* entry is among the posted entries of two committed runs.
C6_NoEntryPostedTwice ==
  \A r1, r2 \in Runs :
    (r1 # r2 /\ runs[r1].pc = "done" /\ runs[r2].pc = "done")
      => DirtyEntries(runs[r1]) \cap DirtyEntries(runs[r2]) = {}

\* C7: the status of a claim right changes only from active to completed or
\* from active to cancelled; completed and cancelled are never left.
C7_ClaimStatusTransitions ==
  [][\A c \in 1..Len(claim_rights) :
       claim_rights'[c].status # claim_rights[c].status
         => /\ claim_rights[c].status = "active"
            /\ claim_rights'[c].status \in {"completed", "cancelled"}]_vars

\* C8: the status of an amortization entry changes only from PENDING to
\* POSTED or from PENDING to SKIPPED, over any sequence of calls.
C8_EntryStatusTransitions ==
  [][\A i \in 1..Len(amortization_entries) :
       amortization_entries'[i].status # amortization_entries[i].status
         => /\ amortization_entries[i].status = "PENDING"
            /\ amortization_entries'[i].status \in {"POSTED", "SKIPPED"}]_vars

\* a batch has posted while another claim's entries were already skipped
C8_Witness ==
  /\ lastOp.op = "process_accruals_for_period"
  /\ ~lastOp.dry_run
  /\ lastOp.result = "ok"
  /\ lastOp.results.posted_entries # <<>>
  /\ \E i \in 1..Len(amortization_entries) : amortization_entries[i].status = "SKIPPED"

\* C9: cancel_claim_right on an active claim sets its status to cancelled
\* (with the date and the reason of the cancellation) and its PENDING entries
\* to SKIPPED, and leaves its POSTED entries, every other entry, the journal
\* and the claim's amounts unchanged.
C9_CancelEffect ==
  [][(/\ lastOp'.op = "cancel_claim_right"
      /\ lastOp'.claim_right_id \in 1..Len(claim_rights)
      /\ claim_rights[lastOp'.claim_right_id].status = "active")
     => LET c == lastOp'.claim_right_id
        IN  /\ claim_rights' = [claim_rights EXCEPT ![c].status = "cancelled",
                                                   ![c].cancellation_date = "utcnow",
                                                   ![c].cancellation_reason = lastOp'.reason]
            /\ Len(amortization_entries') = Len(amortization_entries)
            /\ \A i \in 1..Len(amortization_entries) :
                 IF /\ amortization_entries[i].claim_right_id = c
                    /\ amortization_entries[i].status = "PENDING"
                 THEN amortization_entries'[i] = [amortization_entries[i] EXCEPT !.status = "SKIPPED"]
                 ELSE amortization_entries'[i] = amortization_entries[i]
            /\ UNCHANGED <<ledgerVars, amortization_schedules, accounts>>]_vars

\* a claim was cancelled with one entry posted and another still pending
C9_Witness ==
  /\ lastOp.op = "cancel_claim_right"
  /\ lastOp.result = "cancelled"
  /\ \E i, j \in 1..Len(amortization_entries) :
       /\ amortization_entries[i].claim_right_id = lastOp.claim_right_id
       /\ amortization_entries[j].claim_right_id = lastOp.claim_right_id
       /\ amortization_entries[i].status = "POSTED"
       /\ amortization_entries[j].status = "SKIPPED"

\* C10: create_journal_entry on lines that do not balance (|debits - credits|
\* of 0.01 or more) fails and leaves the journal unchanged; on success the
\* entry is persisted with all its lines, and no call changes earlier rows.
C10_CreateJournalEntryAtomic ==
  [][lastOp'.op = "create_journal_entry"
     => /\ lastOp'.imbalance >= Tol
          => /\ lastOp'.result = "ValueError"
             /\ UNCHANGED ledgerVars
        /\ lastOp'.result # "ok" => UNCHANGED ledgerVars
        /\ lastOp'.result = "ok"
          => /\ Len(journal_entries') = Len(journal_entries) + 1
             /\ SubSeq(journal_entries', 1, Len(journal_entries)) = journal_entries
             /\ Len(journal_entry_lines') = Len(journal_entry_lines) + lastOp'.n_lines
             /\ SubSeq(journal_entry_lines', 1, Len(journal_entry_lines)) = journal_entry_lines
             /\ \A i \in (Len(journal_entry_lines) + 1)..Len(journal_entry_lines') :
                  journal_entry_lines'[i].journal_entry_id = Len(journal_entries')]_vars

\* The sum of the amounts of the entries of claim c among the ids of posted.
RECURSIVE PostedAmount(_, _)
PostedAmount(c, posted) ==
  IF posted = <<>> THEN 0
  ELSE (IF amortization_entries[Head(posted)].claim_right_id = c
        THEN amortization_entries[Head(posted)].amount ELSE 0)
       + PostedAmount(c, Tail(posted))

\* A step that is a call of process_accruals_for_period that returned.
BatchReturned(dry_run) ==
  /\ lastOp'.op = "process_accruals_for_period"
  /\ lastOp'.dry_run = dry_run
  /\ lastOp'.result = "ok"

\* C11: a successful non-dry-run posting of a PENDING entry of amount a sets
\* the entry to POSTED with posted_at and journal_entry_id set, adds exactly a
\* to the claim's amortized_amount, takes exactly a from its remaining_amount
\* and completes the claim if and only if |remaining_amount| < 0.01 afterwards.
C11_PostingEffect ==
  [][BatchReturned(FALSE)
     => LET posted == lastOp'.results.posted_entries
        IN  /\ \A k \in 1..Len(posted) :
                 /\ amortization_entries[posted[k]].status = "PENDING"
                 /\ amortization_entries'[posted[k]].status = "POSTED"
                 /\ amortization_entries'[posted[k]].posted_at # "None"
                 /\ amortization_entries'[posted[k]].journal_entry_id # 0
            /\ \A c \in 1..Len(claim_rights) :
                 LET a == PostedAmount(c, posted)
                 IN  /\ claim_rights'[c].amortized_amount = claim_rights[c].amortized_amount + a
                     /\ claim_rights'[c].remaining_amount = claim_rights[c].remaining_amount - a
                     /\ a > 0 => (claim_rights'[c].status = "completed"
                                    <=> Abs(claim_rights'[c].remaining_amount) < Tol)]_vars

\* a batch has just posted; one claim is completed, another still active with
\* part of its amount amortized
C11_Witness ==
  /\ lastOp.op = "process_accruals_for_period"
  /\ ~lastOp.dry_run
  /\ lastOp.result = "ok"
  /\ lastOp.results.posted_entries # <<>>
  /\ \E c \in 1..Len(claim_rights) : claim_rights[c].status = "completed"
  /\ \E c \in 1..Len(claim_rights) :
       /\ claim_rights[c].status = "active"
       /\ claim_rights[c].amortized_amount > 0
       /\ claim_rights[c].remaining_amount >= Tol

\* The two lines of the journal entry of a posting, as (account, debit,
\* credit): the account sets are the expense and the revenue accounts.
IsAccrualLines(lines, claim_type, amount) ==
  /\ Len(lines) = 2
  /\ lines[1].debit = amount /\ lines[1].credit = 0
  /\ lines[2].debit = 0 /\ lines[2].credit = amount
  /\ IF claim_type = "ASSET_CLAIM"
     THEN /\ AccountType(lines[1].account_id) = "expense"
          /\ lines[2].account_id = PREPAID_EXPENSE_ACCOUNT
     ELSE /\ lines[1].account_id = DEFERRED_REVENUE_ACCOUNT
          /\ AccountType(lines[2].account_id) = "revenue"

\* C12: every POSTED amortization entry references a persisted journal entry
\* that is flagged is_adjusting and has exactly the two lines of the posting.
C12_PostedEntryHasJournalEntry ==
  \A i \in 1..Len(amortization_entries) :
    amortization_entries[i].status = "POSTED"
      => LET j == amortization_entries[i].journal_entry_id
         IN  /\ j \in 1..Len(journal_entries)
             /\ journal_entries[j].is_adjusting
             /\ IsAccrualLines(LinesOf(j), claim_rights[amortization_entries[i].claim_right_id].claim_type,
                               amortization_entries[i].amount)

\* C13: process_accruals_for_period with dry_run persists nothing: the
\* entries, the claims, the schedules and the journal are after the call what
\* they were before it.
C13_DryRunPersistsNothing ==
  [][BatchReturned(TRUE) => UNCHANGED <<claimVars, ledgerVars>>]_vars

\* a dry run has just gone over entries it would post
C13_Witness ==
  /\ lastOp.op = "process_accruals_for_period"
  /\ lastOp.dry_run
  /\ lastOp.results.entries_processed > 0

\* What a call over the period returns when nothing stops it.
ResultsOf(period_start, period_end, dry_run) ==
  ProcessAll(SelectRun(period_start, period_end, dry_run)).results

\* C14: from the same state and for the same period, a dry run returns the
\* same entries_processed, total_amount, asset_claims, liability_claims and
\* posted_entries as the run that posts.
C14_DryRunSameResults ==
  \A w \in Windows : ResultsOf(w[1], w[2], TRUE) = ResultsOf(w[1], w[2], FALSE)

\* The entries the query of a call over the period returns.
SelectedEntries(period_start, period_end) ==
  {i \in 1..Len(amortization_entries) :
     IsSelected(amortization_entries[i], period_start, period_end)}

\* A step that is a call of process_accruals_for_period that posts and in
\* which some entry raised.
BatchWithErrors ==
  /\ lastOp'.op = "process_accruals_for_period"
  /\ ~lastOp'.dry_run
  /\ lastOp'.results.errors # <<>>

\* C15: when an entry of the batch fails, the failure is one item of errors,
\* the entry stays PENDING and its claim keeps its amounts, it is counted
\* neither in entries_processed nor in total_amount, every other selected entry
\* is posted, and the call returns its results.
C15_FailureIsolated ==
  [][BatchWithErrors
     => LET res      == lastOp'.results
            failed   == SeqToSet(res.errors)
            selected == SelectedEntries(res.period_start, res.period_end)
        IN  /\ lastOp'.result = "ok"
            /\ failed \subseteq selected
            /\ Len(res.errors) = Cardinality(failed)
            /\ \A i \in failed :
                 /\ amortization_entries'[i] = amortization_entries[i]
                 /\ claim_rights'[amortization_entries[i].claim_right_id]
                      = claim_rights[amortization_entries[i].claim_right_id]
            /\ res.entries_processed = Cardinality(selected \ failed)
            /\ res.total_amount = FSum([k \in 1..Len(res.posted_entries) |->
                                          amortization_entries[res.posted_entries[k]].amount])
            /\ SeqToSet(res.posted_entries) = selected \ failed
            /\ \A i \in selected \ failed : amortization_entries'[i].status = "POSTED"]_vars

\* A step that is a call of process_accruals_for_period that is not a dry run.
BatchPosting ==
  /\ lastOp'.op = "process_accruals_for_period"
  /\ ~lastOp'.dry_run

\* What a call leaves alone: the entries outside the selection, the claims
\* with no selected entry, and all of a cancelled claim.
BatchFrame(selected) ==
  /\ Len(amortization_entries') = Len(amortization_entries)
  /\ Len(claim_rights') = Len(claim_rights)
  /\ \A i \in (1..Len(amortization_entries)) \ selected :
       amortization_entries'[i] = amortization_entries[i]
  /\ \A c \in 1..Len(claim_rights) :
       (\A i \in selected : amortization_entries[i].claim_right_id # c)
         => claim_rights'[c] = claim_rights[c]
  /\ \A c \in 1..Len(claim_rights) :
       claim_rights[c].status = "cancelled"
         => /\ claim_rights'[c] = claim_rights[c]
            /\ \A i \in 1..Len(amortization_entries) :
                 amortization_entries[i].claim_right_id = c
                   => amortization_entries'[i] = amortization_entries[i]

\* C16: a call over [start, end] posts exactly the entries that are PENDING,
\* of an active claim and overlapping the period; every other entry and its
\* claim are as before, a cancelled claim and its entries in particular.
C16_PostsExactlySelected ==
  [][BatchPosting
     => LET selected == SelectedEntries(lastOp'.results.period_start,
                                        lastOp'.results.period_end)
        IN  /\ \A i \in selected : amortization_entries'[i].status = "POSTED"
            /\ BatchFrame(selected)]_vars

\* A step that is a call of auto_generate_journal_entry.
AutoGenerated == lastOp'.op = "auto_generate_journal_entry"

\* What auto_generate_journal_entry returns when it returns None.
NoneResults == {"None: accounts missing", "None: amount", "None: exception"}

\* C17: auto_generate_journal_entry for a transaction whose amount is <= 0
\* returns None without raising and leaves the journal entries and the
\* journal lines as they were.
C17_NonPositiveAmountNotPosted ==
  [][(AutoGenerated /\ lastOp'.amount <= 0)
     => /\ lastOp'.result \in NoneResults
        /\ UNCHANGED ledgerVars]_vars

\* a call reached the amount test with an amount of 0 or less
C17_Witness ==
  /\ lastOp.op = "auto_generate_journal_entry"
  /\ lastOp.amount <= 0
  /\ lastOp.result = "None: amount"

\* C18: when a mapped account is missing, auto_generate_journal_entry runs
\* initialize_chart_of_accounts once and looks again; if an account is still
\* missing from the chart it returns None and writes no journal entry, and if
\* both are then in the chart it posts the two-line entry: debit the expense
\* account, credit the payment account, both for the amount.
C18_InitializeOnceAndRetry ==
  [][(AutoGenerated /\ lastOp'.initialized /\ lastOp'.amount > 0
        /\ lastOp'.result # "None: exception")
     => /\ accounts' = InitializedChart(accounts)
        /\ IF {lastOp'.expense_code, lastOp'.payment_code} \subseteq accounts'
           THEN /\ lastOp'.result = "ok"
                /\ Len(journal_entries') = Len(journal_entries) + 1
                /\ LET lines == SelectSeq(journal_entry_lines',
                                   LAMBDA line : line.journal_entry_id = Len(journal_entries'))
                   IN  /\ Len(lines) = 2
                       /\ lines[1].account_id = lastOp'.expense_code
                       /\ lines[1].debit = lastOp'.amount /\ lines[1].credit = 0
                       /\ lines[2].account_id = lastOp'.payment_code
                       /\ lines[2].credit = lastOp'.amount /\ lines[2].debit = 0
           ELSE /\ lastOp'.result = "None: accounts missing"
                /\ UNCHANGED ledgerVars]_vars

\* The schedule rows of a claim.
SchedulesOf(c) ==
  {i \in 1..Len(amortization_schedules) : amortization_schedules[i].claim_right_id = c}

\* C19: generate_amortization_schedule on a claim that has a schedule is a
\* no-op: it returns the existing schedule, adds no schedule and no entry, and
\* changes no entry, whatever the statuses of the entries.
C19_GenerateTwiceIsNoOp ==
  [][(/\ lastOp'.op = "generate_amortization_schedule"
      /\ lastOp'.claim_right_id \in 1..Len(claim_rights)
      /\ SchedulesOf(lastOp'.claim_right_id) # {})
     => /\ lastOp'.result = "exists"
        /\ UNCHANGED claimVars]_vars

\* the second call came after one entry of the claim was posted or skipped
C19_Witness ==
  /\ lastOp.op = "generate_amortization_schedule"
  /\ lastOp.result = "exists"
  /\ Cardinality(SchedulesOf(lastOp.claim_right_id)) = 1
  /\ \E i \in 1..Len(amortization_entries) :
       /\ amortization_entries[i].claim_right_id = lastOp.claim_right_id
       /\ amortization_entries[i].status \in {"POSTED", "SKIPPED"}

\* The longest span looked at, in months.
MaxMonths == 24

\* The whole calendar months spanned from start_date to end_date: the most
\* months that added to start_date do not pass end_date.
WholeMonths(start_date, end_date) ==
  CHOOSE k \in 0..MaxMonths :
    /\ DateLE(AddMonths(start_date, k), end_date)
    /\ \A j \in (k + 1)..MaxMonths : ~DateLE(AddMonths(start_date, j), end_date)

\* The number of periods the range spans: whole months or years, and one more
\* for a trailing part; a quarter for every three months, rounded up.
SpannedPeriods(start_date, end_date, frequency) ==
  LET whole  == WholeMonths(start_date, end_date)
      months == whole + (IF DateLT(AddMonths(start_date, whole), end_date) THEN 1 ELSE 0)
      years  == whole \div 12
  IN  IF frequency = "quarterly" THEN (months + 2) \div 3
      ELSE IF frequency = "yearly"
        THEN years + (IF DateLT(AddMonths(start_date, 12 * years), end_date) THEN 1 ELSE 0)
      ELSE months

\* C20: for every claim with end_date > start_date and a monthly, quarterly or
\* yearly frequency, determine_amortization_periods returns at least 1: the
\* whole months spanned plus one for a trailing partial month, the ceiling of
\* that count over 3, or the whole years plus one for a trailing partial year.
C20_PeriodsSpanned ==
  \A c \in 1..Len(claim_rights) :
    LET claim == claim_rights[c]
        n     == determine_amortization_periods(claim.start_date, claim.end_date, claim.frequency)
    IN  (DateLT(claim.start_date, claim.end_date) /\ claim.frequency \in Frequencies)
          => /\ n >= 1
             /\ n = SpannedPeriods(claim.start_date, claim.end_date, claim.frequency)

\* A step that is a call of create_claim_right that raised ValueError.
CreateRejected ==
  /\ lastOp'.op = "create_claim_right"
  /\ lastOp'.result = "ValueError"

\* C21: a create_claim_right call that fails validation (total_amount <= 0,
\* or end_date <= start_date) writes nothing: no claim right, no schedule and
\* no amortization entry is added.
C21_RejectedBeforeAnyWrite ==
  [][CreateRejected => UNCHANGED claimVars]_vars

\* The entries of claim c are numbered 1, 2, ... in row order and there are
\* total_periods of them.
NumberedEntries(c) ==
  LET entries  == EntriesOf(c)
      schedule == amortization_schedules[CHOOSE i \in SchedulesOf(c) : TRUE]
  IN  /\ schedule.is_generated
      /\ Len(entries) = schedule.total_periods
      /\ \A k \in 1..Len(entries) : entries[k].period_number = k

\* A step that is a call of create_claim_right that returned the claim.
CreateReturned ==
  /\ lastOp'.op = "create_claim_right"
  /\ lastOp'.result = "ok"

\* C22: a successful create_claim_right leaves the claim with one generated
\* schedule and total_periods entries numbered 1..total_periods, all PENDING;
\* no claim ever has two schedules, and the numbering of a scheduled claim
\* holds in every later state.
C22_OneScheduleNumberedEntries ==
  /\ [](\A c \in 1..Len(claim_rights) :
          /\ Cardinality(SchedulesOf(c)) <= 1
          /\ SchedulesOf(c) # {} => NumberedEntries(c))
  /\ [][CreateReturned
        => LET c == lastOp'.claim_right_id
           IN  /\ c = Len(claim_rights')
               /\ \E i \in 1..Len(amortization_schedules') :
                    amortization_schedules'[i].claim_right_id = c
               /\ \A i \in 1..Len(amortization_entries') :
                    amortization_entries'[i].claim_right_id = c
                      => amortization_entries'[i].status = "PENDING"]_vars

\* a claim of several periods, created and then partly posted
C22_Witness ==
  \E c \in 1..Len(claim_rights) :
    /\ SchedulesOf(c) # {}
    /\ Len(EntriesOf(c)) >= 2
    /\ \E k \in 1..Len(EntriesOf(c)) : EntriesOf(c)[k].status = "POSTED"

\* C23: every persisted journal line has debit >= 0, credit >= 0 and exactly
\* one of the two non-zero.
C23_LineIsDebitOrCredit ==
  \A i \in 1..Len(journal_entry_lines) :
    LET line == journal_entry_lines[i]
    IN  /\ line.debit >= 0
        /\ line.credit >= 0
        /\ (line.debit # 0) # (line.credit # 0)

\* A step that is a call of cancel_claim_right on a claim that is cancelled.
CancelledAgain ==
  /\ lastOp'.op = "cancel_claim_right"
  /\ lastOp'.claim_right_id \in 1..Len(claim_rights)
  /\ claim_rights[lastOp'.claim_right_id].status = "cancelled"

\* C24: cancel_claim_right on a cancelled claim returns the claim as it is:
\* the status, the cancellation date and reason of the first cancellation and
\* every amortization entry stay as they were.
C24_CancelTwiceIsNoOp ==
  [][CancelledAgain
     => /\ lastOp'.result = "unchanged"
        /\ UNCHANGED claimVars]_vars

\* a second cancellation, for another reason, of a claim with skipped entries
C24_Witness ==
  /\ lastOp.op = "cancel_claim_right"
  /\ lastOp.result = "unchanged"
  /\ claim_rights[lastOp.claim_right_id].status = "cancelled"
  /\ claim_rights[lastOp.claim_right_id].cancellation_reason # lastOp.reason
  /\ \E i \in 1..Len(amortization_entries) :
       /\ amortization_entries[i].claim_right_id = lastOp.claim_right_id
       /\ amortization_entries[i].status = "SKIPPED"

\* C25: the entries of a generated schedule tile the claim's interval: the
\* first starts at start_date, each later one starts where the one before it
\* ends, each has period_start < period_end, and the last ends at end_date.
C25_EntriesTileInterval ==
  \A c \in 1..Len(claim_rights) :
    SchedulesOf(c) # {}
      => LET entries == EntriesOf(c)
             n       == Len(entries)
         IN  /\ n >= 1
             /\ entries[1].period_start = claim_rights[c].start_date
             /\ \A k \in 1..(n - 1) : entries[k + 1].period_start = entries[k].period_end
             /\ \A k \in 1..n : DateLT(entries[k].period_start, entries[k].period_end)
             /\ entries[n].period_end = claim_rights[c].end_date

\* The amounts of the entries of claim c whose status is in statuses, in row
\* order.
AmountsWithStatus(c, statuses) ==
  LET entries == SelectSeq(EntriesOf(c), LAMBDA entry : entry.status \in statuses)
  IN  [k \in 1..Len(entries) |-> entries[k].amount]

\* C26: in every state reached by create_claim_right, process_accruals_for_period
\* and cancel_claim_right calls run one after the other, each claim's
\* amortized_amount is the sum of the amounts of its POSTED entries and its
\* remaining_amount the sum of the amounts of its PENDING and SKIPPED entries.
C26_AmountsMatchEntries ==
  \A c \in 1..Len(claim_rights) :
    /\ claim_rights[c].amortized_amount = FSum(AmountsWithStatus(c, {"POSTED"}))
    /\ claim_rights[c].remaining_amount = FSum(AmountsWithStatus(c, {"PENDING", "SKIPPED"}))

\* C27: a claim right whose status is completed has no PENDING amortization
\* entry.
C27_CompletedHasNoPending ==
  \A i \in 1..Len(amortization_entries) :
    claim_rights[amortization_entries[i].claim_right_id].status = "completed"
      => amortization_entries[i].status # "PENDING"

\* C28: once cancel_claim_right has committed, no step of a concurrent batch
\* that had selected the claim's entries changes the claim or its entries: no
\* SKIPPED entry becomes POSTED, and the amounts and status of the cancelled
\* claim stay.
C28_CancelledClaimUntouched ==
  [][\A c \in 1..Len(claim_rights) :
       claim_rights[c].status = "cancelled"
         => /\ claim_rights'[c] = claim_rights[c]
            /\ \A i \in 1..Len(amortization_entries) :
                 amortization_entries[i].claim_right_id = c
                   => amortization_entries'[i] = amortization_entries[i]]_vars

\* Whether the postings of claim c fail: the commit of the batch raises, or
\* the posting itself does.
PostingsFail(c) == fk \/ PostingRaises(claim_rights[c])

\* Claim c is fully amortized: completed, every entry POSTED, nothing left.
FullyAmortized(c) ==
  /\ claim_rights[c].status = "completed"
  /\ \A i \in 1..Len(amortization_entries) :
       amortization_entries[i].claim_right_id = c => amortization_entries[i].status = "POSTED"
  /\ Abs(claim_rights[c].remaining_amount) < Tol

\* C29: when every period is processed again and again by non-dry-run calls,
\* each claim that has its schedule, is not cancelled and whose postings do
\* not fail is eventually completed with all of its entries POSTED and a
\* remaining_amount within 0.01 of 0.
C29_EventuallyFullyAmortized ==
  \A c \in 1..MaxClaims :
    (c <= Len(claim_rights) /\ SchedulesOf(c) # {})
      ~> (c <= Len(claim_rights)
            /\ (FullyAmortized(c) \/ claim_rights[c].status = "cancelled" \/ PostingsFail(c)))

\* The journal entries linked to a ledger entry: what the query of
\* get_journal_entry_by_ledger_entry matches.
EntriesOfLedgerEntry(ledger_entry_id) ==
  {j \in 1..Len(journal_entries) : journal_entries[j].ledger_entry_id = ledger_entry_id}

\* C30: at most one persisted journal entry is linked to any one ledger entry,
\* in every state reached through auto_generate_journal_entry and accrual
\* postings.
C30_OneEntryPerTransaction ==
  \A j \in 1..Len(journal_entries) :
    journal_entries[j].ledger_entry_id # 0
      => Cardinality(EntriesOfLedgerEntry(journal_entries[j].ledger_entry_id)) <= 1

====
